---- MODULE Spec2Model ----
(***************************************************************************)
(* Model of the inverted index of task_inverted_index.py: the document     *)
(* source (load_documents), the index builder (build_inverted_index), the  *)
(* query engine (InvertedIndex.query), persistence (InvertedIndex.dump and *)
(* InvertedIndex.load over the two storage policies) and the two command   *)
(* line entry points (create_index, process_query).                        *)
(*                                                                         *)
(* A string is a sequence of one-character strings.  A Python int is kept  *)
(* as its canonical sequence of decimal digits (<<3, 0, 0>> is 300), so    *)
(* that document ids beyond 32 bits can be told from those within.         *)
(***************************************************************************)
EXTENDS Integers, Sequences, FiniteSets, TLC

VARIABLES
    pc,              \* position of the running operation
    line,            \* the line load_documents has read last
    yielded,         \* the pair load_documents has yielded last, or None
    documents,       \* the (doc_id, content) pairs build_inverted_index has consumed
    word2doc_id,     \* InvertedIndex._word2doc_id : term -> set of document ids
    query,           \* argument of the last InvertedIndex.query call
    result,          \* list returned by the last InvertedIndex.query call
    storage_policy,  \* the storage policy in use: "json", "struct", or "none"
    disk,            \* the index file: None, or <<policy that wrote it, its bytes>>
    written,         \* the int StructStoragePolicy.dump returned last, or None
    loaded,          \* _word2doc_id of the index InvertedIndex.load returned
    queries_given,   \* process_query: whether queries is not None
    queries,         \* process_query: the list of queries
    query_file,      \* process_query: the lines of the query file
    position,        \* process_query: how many queries or lines the loop has taken
    stdout,          \* the characters printed
    error            \* the exception that ended the operation, or "none"

loadVars  == <<line, yielded>>
buildVars == <<documents, word2doc_id>>
queryVars == <<query, result>>
storeVars == <<storage_policy, disk, written, loaded>>
cliVars   == <<queries_given, queries, query_file, position, stdout>>

vars == <<pc, loadVars, buildVars, queryVars, storeVars, cliVars, error>>

----------------------------------------------------------------------------
(* Generic helpers *)

\* None: no pair, no match, no file, no int
None == <<>>

Range(s) == {s[i] : i \in DOMAIN s}

\* Every list holding the members of S once each: the orders list(S) may
\* produce for a Python set S, whose iteration order is unspecified.
ListsOf(S) ==
    {l \in [1..Cardinality(S) -> S] : \A i, j \in 1..Cardinality(S) : l[i] = l[j] => i = j}

SeqsUpTo(S, n) == UNION {[1..k -> S] : k \in 0..n}

\* the whitespace of str.split(), str.rstrip() and \s
Whitespace == {" ", "\t", "\n"}

\* defaultdict(set) before any key is touched
EmptyDict == [t \in {} |-> {}]

\* the variables an operation has not touched yet
Untouched ==
    /\ line = <<>> /\ yielded = None /\ documents = <<>>
    /\ query = <<>> /\ result = <<>>
    /\ storage_policy = "none" /\ disk = None /\ written = None /\ loaded = EmptyDict
    /\ queries_given = FALSE /\ queries = <<>> /\ query_file = <<>>
    /\ position = 0 /\ stdout = <<>>
    /\ error = "none"

----------------------------------------------------------------------------
(* load_documents *)

MaxLine == 4

Digits == {"0", "1", "2", "3", "4", "5", "6", "7", "8", "9"}

LineChars == {"0", "1", "a", " "}

DigitValue(c) ==
    CASE c = "0" -> 0 [] c = "1" -> 1 [] c = "2" -> 2 [] c = "3" -> 3 [] c = "4" -> 4
      [] c = "5" -> 5 [] c = "6" -> 6 [] c = "7" -> 7 [] c = "8" -> 8 [] c = "9" -> 9

\* int(text) of a run of digits: the digits without the leading zeros
RECURSIVE int(_)
int(text) ==
    IF Len(text) > 1 /\ Head(text) = "0" THEN int(Tail(text))
    ELSE [i \in DOMAIN text |-> DigitValue(text[i])]

\* line.rstrip()
RECURSIVE rstrip(_)
rstrip(text) ==
    IF text # <<>> /\ text[Len(text)] \in Whitespace
    THEN rstrip(SubSeq(text, 1, Len(text) - 1))
    ELSE text

\* the end of the run of digits that starts at i: the index after it
RECURSIVE digits_end(_, _)
digits_end(text, i) ==
    IF i <= Len(text) /\ text[i] \in Digits THEN digits_end(text, i + 1) ELSE i

\* the end of "." repeated from i: "." matches any character but a newline
RECURSIVE dots_end(_, _)
dots_end(text, i) ==
    IF i <= Len(text) /\ text[i] # "\n" THEN dots_end(text, i + 1) ELSE i

\* a match of (\d+)\s(.+) that starts at i: the digits are taken greedily
\* and given back one by one until \s and .+ match after them; the two
\* groups and the index after the match, or None
match_at(text, i) ==
    LET e  == digits_end(text, i)
        ks == {k \in (i + 1)..e :
                  /\ k <= Len(text) /\ text[k] \in Whitespace
                  /\ dots_end(text, k + 1) > k + 1}
    IN  IF ks = {} THEN None
        ELSE LET k == CHOOSE x \in ks : \A y \in ks : y <= x
             IN  <<SubSeq(text, i, k - 1),
                   SubSeq(text, k + 1, dots_end(text, k + 1) - 1),
                   dots_end(text, k + 1)>>

\* list(re.finditer(regex, text)): the matches, searched for from left to
\* right, each search starting where the match before ended
RECURSIVE finditer(_, _)
finditer(text, i) ==
    IF i > Len(text) THEN <<>>
    ELSE IF match_at(text, i) = None THEN finditer(text, i + 1)
         ELSE <<SubSeq(match_at(text, i), 1, 2)>> \o finditer(text, match_at(text, i)[3])

\* the body of the loop over the lines of the file: the pair it yields, or
\* None when it raises ValueError("Unable to parse line")
parse_line(l) ==
    LET matches == finditer(rstrip(l), 1)
    IN  IF Len(matches) = 1
        THEN <<int(matches[1][1]), matches[1][2]>>
        ELSE None

\* the generator reads the next line of the file and yields or raises
ReadLine(l) ==
    /\ pc \in {"reading", "yielded"}
    /\ line' = l
    /\ yielded' = parse_line(l)
    /\ pc' = IF parse_line(l) = None THEN "raised" ELSE "yielded"
    /\ error' = IF parse_line(l) = None THEN "ValueError" ELSE error
    /\ UNCHANGED <<buildVars, queryVars, storeVars, cliVars>>

\* the file has no more lines: the generator returns
EndOfFile ==
    /\ pc \in {"reading", "yielded"}
    /\ pc' = "exhausted"
    /\ UNCHANGED <<loadVars, buildVars, queryVars, storeVars, cliVars, error>>

InitLoad ==
    /\ pc = "reading"
    /\ word2doc_id = EmptyDict
    /\ Untouched

NextLoad ==
    \/ \E body \in SeqsUpTo(LineChars, MaxLine), nl \in {<<>>, <<"\n">>} :
           ReadLine(body \o nl)
    \/ EndOfFile

SpecLoad == InitLoad /\ [][NextLoad]_vars

----------------------------------------------------------------------------
(* build_inverted_index *)

MaxDocs == 2
\* number of characters of text the builder consumes in all
MaxText == 4

TextChars == {"a", "A", " ", "\t"}
BuildDocIds == {<<1>>, <<2>>}

\* the scan of str.split(sep): each sep separates, empty strings are kept
RECURSIVE split_on(_, _, _, _, _)
split_on(sep, content, i, word, words) ==
    IF i > Len(content) THEN Append(words, word)
    ELSE IF content[i] = sep
         THEN split_on(sep, content, i + 1, <<>>, Append(words, word))
         ELSE split_on(sep, content, i + 1, Append(word, content[i]), words)

\* content.split(' ')
split_single_space(content) == split_on(" ", content, 1, <<>>, <<>>)

\* the scan of str.split(): runs of whitespace separate, no empty strings
RECURSIVE split_scan(_, _, _, _)
split_scan(content, i, word, words) ==
    IF i > Len(content)
    THEN IF word = <<>> THEN words ELSE Append(words, word)
    ELSE IF content[i] \in Whitespace
         THEN split_scan(content, i + 1, <<>>,
                         IF word = <<>> THEN words ELSE Append(words, word))
         ELSE split_scan(content, i + 1, Append(word, content[i]), words)

\* content.split(' ') in place of content.split(): tabs do not separate
\* and repeated spaces give empty words
split_by_space(content) == split_on(" ", content, 1, <<>>, <<>>)

\* words = content.split()
split(content) == split_scan(content, 1, <<>>, <<>>)

\* word2doc_id[word] = {doc_id}: the postings are replaced, not extended
add_word_overwrite(w2d, word, doc_id) ==
    [t \in DOMAIN w2d \cup {word} |-> IF t = word THEN {doc_id} ELSE w2d[t]]

LowerChar(c) == IF c = "A" THEN "a" ELSE c

\* word2doc_id[word.lower()].add(doc_id): the term is case-folded
add_word_lower(w2d, word, doc_id) ==
    LET key == [i \in DOMAIN word |-> LowerChar(word[i])]
    IN  [t \in DOMAIN w2d \cup {key} |->
            IF t = key
            THEN (IF t \in DOMAIN w2d THEN w2d[t] ELSE {}) \cup {doc_id}
            ELSE w2d[t]]

\* word2doc_id[word].add(doc_id) on a defaultdict(set)
add_word(w2d, word, doc_id) ==
    [t \in DOMAIN w2d \cup {word} |->
        IF t = word
        THEN (IF t \in DOMAIN w2d THEN w2d[t] ELSE {}) \cup {doc_id}
        ELSE w2d[t]]

\* for word in words: word2doc_id[word].add(doc_id)
RECURSIVE add_words(_, _, _, _)
add_words(w2d, words, i, doc_id) ==
    IF i > Len(words) THEN w2d
    ELSE add_words(add_word(w2d, words[i], doc_id), words, i + 1, doc_id)

\* one round of the loop over documents
add_document(w2d, doc_id, content) == add_words(w2d, split(content), 1, doc_id)

\* build_inverted_index on a list of documents
RECURSIVE build_from(_, _, _)
build_from(w2d, docs, i) ==
    IF i > Len(docs) THEN w2d
    ELSE build_from(add_document(w2d, docs[i][1], docs[i][2]), docs, i + 1)

build_inverted_index(docs) == build_from(EmptyDict, docs, 1)

RECURSIVE TextLen(_)
TextLen(docs) == IF docs = <<>> THEN 0 ELSE Len(Head(docs)[2]) + TextLen(Tail(docs))

\* the loop takes the next pair of the iterable
BuildLoop(doc_id, content) ==
    /\ pc = "building"
    /\ Len(documents) < MaxDocs
    /\ TextLen(documents) + Len(content) <= MaxText
    /\ word2doc_id' = add_document(word2doc_id, doc_id, content)
    /\ documents' = Append(documents, <<doc_id, content>>)
    /\ UNCHANGED <<pc, loadVars, queryVars, storeVars, cliVars, error>>

\* the iterable is exhausted: return InvertedIndex(word2doc_id)
BuildReturn ==
    /\ pc = "building"
    /\ pc' = "built"
    /\ UNCHANGED <<loadVars, buildVars, queryVars, storeVars, cliVars, error>>

InitBuild ==
    /\ pc = "building"
    /\ word2doc_id = EmptyDict
    /\ Untouched

NextBuild ==
    \/ \E doc_id \in BuildDocIds :
         \E content \in SeqsUpTo(TextChars, MaxText - TextLen(documents)) :
           BuildLoop(doc_id, content)
    \/ BuildReturn

SpecBuild == InitBuild /\ [][NextBuild]_vars

----------------------------------------------------------------------------
(* InvertedIndex.query *)

MaxQueryLen == 3

\* terms used by queries and directly constructed stores
QueryTerms == {<<"a">>, <<"A">>, <<"b">>}

\* document ids 1 and 2
QueryDocIds == {<<1>>, <<2>>}

Queries == SeqsUpTo(QueryTerms, MaxQueryLen)

\* InvertedIndex(mapping) accepts any dict of sets
Stores == UNION {[T -> SUBSET QueryDocIds] : T \in SUBSET QueryTerms}


\* a strict AND: one unknown word empties the list of words
words_present_strict(idx, q) ==
    IF \A i \in DOMAIN q : q[i] \in DOMAIN idx THEN q ELSE <<>>

\* words_present = [w for w in query if w in self._word2doc_id.keys()]
words_present(idx, q) == SelectSeq(q, LAMBDA w : w \in DOMAIN idx)

\* the loop merging the sets instead of intersecting them
RECURSIVE union_loop(_, _, _, _)
union_loop(idx, wp, i, main_set) ==
    IF i > Len(wp) THEN main_set
    ELSE union_loop(idx, wp, i + 1, main_set \cup idx[wp[i]])

\* for word in words_present: main_set = main_set.intersection(word_set)
RECURSIVE intersect_loop(_, _, _, _)
intersect_loop(idx, wp, i, main_set) ==
    IF i > Len(wp) THEN main_set
    ELSE intersect_loop(idx, wp, i + 1, main_set \cap idx[wp[i]])

\* the loop left out: the postings of the first present word are returned
query_set_first(idx, q) ==
    LET wp == words_present(idx, q)
    IN  IF Len(wp) = 0 THEN {} ELSE idx[wp[1]]

\* the set whose list InvertedIndex.query returns
query_set(idx, q) ==
    LET wp == words_present(idx, q)
    IN  IF Len(wp) = 0 THEN {}
        ELSE intersect_loop(idx, wp, 1, idx[wp[1]])

\* self._word2doc_id[w] on the defaultdict(set) made by build_inverted_index:
\* <<value, store afterwards>>; a missing key is created with an empty set
getitem(idx, w) ==
    IF w \in DOMAIN idx THEN <<idx[w], idx>>
    ELSE <<{}, [t \in DOMAIN idx \cup {w} |-> IF t = w THEN {} ELSE idx[t]]>>

\* the store after the subscriptions ws[i..] were evaluated in turn
RECURSIVE lookup_all(_, _, _)
lookup_all(idx, ws, i) ==
    IF i > Len(ws) THEN idx
    ELSE lookup_all(getitem(idx, ws[i])[2], ws, i + 1)

\* every word of the query subscripted, known or not
query_store_unfiltered(idx, q) == lookup_all(idx, q, 1)

\* the store after InvertedIndex.query: `in keys()` does not subscript, and
\* only the words of words_present are subscripted
query_store(idx, q) == lookup_all(idx, words_present(idx, q), 1)

\* Object identity of a set or list held by the caller: the term whose
\* postings set in the store it is, or NoAlias for an object of its own.
NoAlias == <<>>

\* main_set through the loop: set.intersection returns a new set
RECURSIVE main_set_ref(_, _, _)
main_set_ref(wp, i, ref) ==
    IF i > Len(wp) THEN ref
    ELSE main_set_ref(wp, i + 1, NoAlias)

\* list(x) builds a new list, whatever x refers to
list_ref(ref) == NoAlias

\* the object InvertedIndex.query returns: the literal [] or list(main_set),
\* main_set being first the store's own set of words_present[0]
result_ref(idx, q) ==
    LET wp == words_present(idx, q)
    IN  IF Len(wp) = 0 THEN NoAlias
        ELSE list_ref(main_set_ref(wp, 1, wp[1]))

\* InvertedIndex.query
Query(q) ==
    /\ pc \in {"ready", "queried", "mutated"}
    /\ \E l \in ListsOf(query_set(word2doc_id, q)) : result' = l
    /\ word2doc_id' = query_store(word2doc_id, q)
    /\ query' = q
    /\ pc' = "queried"
    /\ UNCHANGED <<loadVars, documents, storeVars, cliVars, error>>

\* the caller appends doc id d to the list it was handed; the store changes
\* with it exactly when that list is one of the store's own objects
CallerMutates(d) ==
    /\ pc = "queried"
    /\ result' = Append(result, d)
    /\ LET ref == result_ref(word2doc_id, query)
       IN  word2doc_id' =
             IF ref = NoAlias THEN word2doc_id
             ELSE [word2doc_id EXCEPT ![ref] = @ \cup {d}]
    /\ pc' = "mutated"
    /\ UNCHANGED <<loadVars, documents, query, storeVars, cliVars, error>>

InitQuery ==
    /\ pc = "ready"
    /\ word2doc_id \in Stores
    /\ Untouched

NextQuery ==
    \/ \E q \in Queries : Query(q)
    \/ \E d \in QueryDocIds : CallerMutates(d)

SpecQuery == InitQuery /\ [][NextQuery]_vars

----------------------------------------------------------------------------
(* The storage policies of module packing (StoragePolicy.create,            *)
(* JsonStoragePolicy, StructStoragePolicy).  The module is not among the    *)
(* sources; it is modelled from the design document: the textual codec of  *)
(* its section 4.3, and the binary layout                                  *)
(*     file       := term_count:uint32  term_count x term_entry            *)
(*     term_entry := name_len:uint32  name_bytes:byte[name_len]            *)
(*                   doc_count:uint32  doc_count x doc_id:uint32           *)
(* with little-endian integers and UTF-8 names.                            *)
(* A mapping is a dict in iteration order: a list of <<term, ids>> pairs.  *)

\* the characters of terms and of the textual codec; "ya" stands for the
\* Cyrillic letter U+044F, whose UTF-8 encoding takes two bytes
utf8_char(c) ==
    CASE c = "a" -> <<97>>  [] c = "A" -> <<65>>  [] c = "b" -> <<98>>
      [] c = "ya" -> <<209, 143>>
      [] c = "{" -> <<123>> [] c = "}" -> <<125>> [] c = "[" -> <<91>>
      [] c = "]" -> <<93>>  [] c = "\"" -> <<34>> [] c = ":" -> <<58>>
      [] c = "," -> <<44>>  [] c = " " -> <<32>>
      [] c = "0" -> <<48>>  [] c = "1" -> <<49>>  [] c = "2" -> <<50>>
      [] c = "3" -> <<51>>  [] c = "4" -> <<52>>  [] c = "5" -> <<53>>
      [] c = "6" -> <<54>>  [] c = "7" -> <<55>>  [] c = "8" -> <<56>>
      [] c = "9" -> <<57>>

Utf8Chars ==
    {"a", "A", "b", "ya", "{", "}", "[", "]", "\"", ":", ",", " ",
     "0", "1", "2", "3", "4", "5", "6", "7", "8", "9"}

\* the number of characters in place of the number of bytes
RECURSIVE utf8_encode_ascii(_)
utf8_encode_ascii(text) ==
    IF text = <<>> THEN <<>>
    ELSE <<utf8_char(Head(text))[1]>> \o utf8_encode_ascii(Tail(text))

\* text.encode('utf-8')
RECURSIVE utf8_encode(_)
utf8_encode(text) ==
    IF text = <<>> THEN <<>>
    ELSE utf8_char(Head(text)) \o utf8_encode(Tail(text))

\* bytes.decode('utf-8'): a byte from 192 to 223 starts a two-byte character
RECURSIVE utf8_decode(_)
utf8_decode(bytes) ==
    IF bytes = <<>> THEN <<>>
    ELSE LET n == IF bytes[1] >= 192 /\ Len(bytes) >= 2 THEN 2 ELSE 1
         IN  <<CHOOSE c \in Utf8Chars : utf8_char(c) = SubSeq(bytes, 1, n)>>
               \o utf8_decode(SubSeq(bytes, n + 1, Len(bytes)))

\* the int n >= 0 of the model checker as a Python int
RECURSIVE to_int(_)
to_int(n) == IF n < 10 THEN <<n>> ELSE to_int(n \div 10) \o <<n % 10>>

\* digits without their leading zeros
RECURSIVE canonical(_)
canonical(ds) == IF Len(ds) > 1 /\ Head(ds) = 0 THEN canonical(Tail(ds)) ELSE ds

\* a small Python int as an int of the model checker
RECURSIVE to_nat(_, _)
to_nat(ds, acc) == IF ds = <<>> THEN acc ELSE to_nat(Tail(ds), acc * 10 + Head(ds))

\* str(n) of an int n >= 0
DigitChar(d) ==
    CASE d = 0 -> "0" [] d = 1 -> "1" [] d = 2 -> "2" [] d = 3 -> "3" [] d = 4 -> "4"
      [] d = 5 -> "5" [] d = 6 -> "6" [] d = 7 -> "7" [] d = 8 -> "8" [] d = 9 -> "9"

str(n) == [i \in DOMAIN n |-> DigitChar(n[i])]

\* divmod(n, 256) by long division: <<quotient, remainder>>
RECURSIVE long_div(_, _, _, _)
long_div(ds, i, rem, q) ==
    IF i > Len(ds) THEN <<canonical(q), rem>>
    ELSE LET cur == rem * 10 + ds[i]
         IN  long_div(ds, i + 1, cur % 256, Append(q, cur \div 256))

divmod256(n) == long_div(n, 1, 0, <<>>)

\* n * 256 + b by long multiplication
RECURSIVE long_mul(_, _, _, _)
long_mul(ds, i, carry, out) ==
    IF i = 0 THEN canonical(to_int(carry) \o out)
    ELSE LET cur == ds[i] * 256 + carry
         IN  long_mul(ds, i - 1, cur \div 10, <<cur % 10>> \o out)

muladd256(n, b) == long_mul(n, Len(n), b, <<>>)

\* the size in bytes of a uint32
UINT32_SIZE == 4

\* struct.pack of one uint32, little-endian: the four bytes, or None when
\* the number does not fit (struct.error)
pack_uint32(n) ==
    LET d1 == divmod256(n)
        d2 == divmod256(d1[1])
        d3 == divmod256(d2[1])
        d4 == divmod256(d3[1])
    IN  IF d4[1] = <<0>> THEN <<d1[2], d2[2], d3[2], d4[2]>> ELSE None

\* struct.unpack of one uint32, little-endian
unpack_uint32(b) ==
    muladd256(muladd256(muladd256(to_int(b[4]), b[3]), b[2]), b[1])

\* sep.join(parts)
RECURSIVE join(_, _)
join(sep, parts) ==
    IF parts = <<>> THEN <<>>
    ELSE IF Len(parts) = 1 THEN parts[1]
    ELSE parts[1] \o sep \o join(sep, Tail(parts))

\* JsonStoragePolicy.dump: the text json.dump writes for the mapping
json_list(ids) == <<"[">> \o join(<<",", " ">>, [i \in DOMAIN ids |-> str(ids[i])]) \o <<"]">>

json_item(item) == <<"\"">> \o item[1] \o <<"\"", ":", " ">> \o json_list(item[2])

json_dumps(mapping) ==
    <<"{">> \o join(<<",", " ">>, [i \in DOMAIN mapping |-> json_item(mapping[i])]) \o <<"}">>

\* JsonStoragePolicy.load: the scan of json.load over the text.  where is
\* "object" between the items, "key" inside a quoted key, "value" between
\* a key and its list, "list" inside a list; the result is the mapping, or
\* None at a character that cannot come next (json.JSONDecodeError)
RECURSIVE json_scan(_, _, _, _, _, _, _)
json_scan(text, i, where, key, number, ids, mapping) ==
    IF i > Len(text) THEN (IF where = "end" THEN <<mapping>> ELSE None)
    ELSE LET c == text[i] IN
      CASE where = "start" ->
             IF c = "{" THEN json_scan(text, i + 1, "object", key, number, ids, mapping)
             ELSE None
        [] where = "object" ->
             IF c = "\"" THEN json_scan(text, i + 1, "key", <<>>, number, ids, mapping)
             ELSE IF c \in {",", " "}
                  THEN json_scan(text, i + 1, "object", key, number, ids, mapping)
             ELSE IF c = "}" THEN json_scan(text, i + 1, "end", key, number, ids, mapping)
             ELSE None
        [] where = "key" ->
             IF c = "\"" THEN json_scan(text, i + 1, "value", key, number, ids, mapping)
             ELSE json_scan(text, i + 1, "key", Append(key, c), number, ids, mapping)
        [] where = "value" ->
             IF c \in {":", " "}
             THEN json_scan(text, i + 1, "value", key, number, ids, mapping)
             ELSE IF c = "[" THEN json_scan(text, i + 1, "list", key, <<>>, <<>>, mapping)
             ELSE None
        [] where = "list" ->
             IF c \in Digits
             THEN json_scan(text, i + 1, "list", key, Append(number, c), ids, mapping)
             ELSE IF c \in {",", " "}
                  THEN json_scan(text, i + 1, "list", key, <<>>,
                                 IF number = <<>> THEN ids ELSE Append(ids, int(number)),
                                 mapping)
             ELSE IF c = "]"
                  THEN json_scan(text, i + 1, "object", key, <<>>, <<>>,
                                 Append(mapping,
                                        <<key, IF number = <<>> THEN ids
                                               ELSE Append(ids, int(number))>>))
             ELSE None
        [] where = "end" -> None

\* the mapping json.load returns, in a one-element list, or None
json_loads(text) == json_scan(text, 1, "start", <<>>, <<>>, <<>>, <<>>)


\* whether the Python int n is at most the model checker's int m
int_le(n, m) ==
    \/ Len(n) < Len(to_int(m))
    \/ Len(n) = Len(to_int(m)) /\ to_nat(n, 0) <= m

\* name_len of a term entry: the length of the UTF-8 encoded term
name_len(term) == to_int(Len(utf8_encode(term)))

\* the doc_count x doc_id:uint32 of a term entry, appended to bytes:
\* <<"ok", bytes>>, or <<"struct.error", the bytes packed before it>>
RECURSIVE pack_ids(_, _, _)
pack_ids(ids, i, bytes) ==
    IF i > Len(ids) THEN <<"ok", bytes>>
    ELSE IF pack_uint32(ids[i]) = None THEN <<"struct.error", bytes>>
    ELSE pack_ids(ids, i + 1, bytes \o pack_uint32(ids[i]))

\* the term entries of the mapping, appended to bytes
RECURSIVE pack_entries(_, _, _)
pack_entries(mapping, i, bytes) ==
    IF i > Len(mapping) THEN <<"ok", bytes>>
    ELSE LET term   == mapping[i][1]
             ids    == mapping[i][2]
             header == pack_uint32(name_len(term)) \o utf8_encode(term)
                         \o pack_uint32(to_int(Len(ids)))
             packed == pack_ids(ids, 1, bytes \o header)
         IN  IF packed[1] = "ok" THEN pack_entries(mapping, i + 1, packed[2])
             ELSE packed

\* StructStoragePolicy.dump: the bytes of the file
struct_dumps(mapping) == pack_entries(mapping, 1, pack_uint32(to_int(Len(mapping))))

\* doc_count x doc_id:uint32 read at pos
RECURSIVE unpack_ids(_, _, _, _)
unpack_ids(bytes, pos, count, ids) ==
    IF count = 0 THEN ids
    ELSE unpack_ids(bytes, pos + UINT32_SIZE, count - 1,
                    Append(ids, unpack_uint32(SubSeq(bytes, pos, pos + UINT32_SIZE - 1))))

\* the term entries read at pos: the mapping in a one-element list, or None
\* when a declared length does not fit the bytes that are left
RECURSIVE unpack_entries(_, _, _, _)
unpack_entries(bytes, pos, count, mapping) ==
    LET left(p) == Len(bytes) - p + 1 IN
    IF count = 0 THEN (IF left(pos) = 0 THEN <<mapping>> ELSE None)
    ELSE IF left(pos) < UINT32_SIZE THEN None
    ELSE LET nlen == unpack_uint32(SubSeq(bytes, pos, pos + UINT32_SIZE - 1))
             p1   == pos + UINT32_SIZE
         IN  IF ~int_le(nlen, left(p1) - UINT32_SIZE) THEN None
             ELSE LET n      == to_nat(nlen, 0)
                      term   == utf8_decode(SubSeq(bytes, p1, p1 + n - 1))
                      p2     == p1 + n
                      dcount == unpack_uint32(SubSeq(bytes, p2, p2 + UINT32_SIZE - 1))
                      p3     == p2 + UINT32_SIZE
                  IN  IF ~int_le(dcount, left(p3) \div UINT32_SIZE) THEN None
                      ELSE LET c == to_nat(dcount, 0)
                           IN  unpack_entries(bytes, p3 + UINT32_SIZE * c, count - 1,
                                   Append(mapping, <<term, unpack_ids(bytes, p3, c, <<>>)>>))

\* StructStoragePolicy.load: the mapping in a one-element list, or None
struct_loads(bytes) ==
    IF Len(bytes) < UINT32_SIZE THEN None
    ELSE LET count == unpack_uint32(SubSeq(bytes, 1, UINT32_SIZE))
         IN  IF ~int_le(count, Len(bytes)) THEN None
             ELSE unpack_entries(bytes, UINT32_SIZE + 1, to_nat(count, 0), <<>>)

\* the names StoragePolicy.create knows
Policies == {"json", "struct"}

----------------------------------------------------------------------------
(* InvertedIndex.dump, InvertedIndex.load, InvertedIndex.__eq__ *)

MaxStoreDocs == 2

\* 7, 300, 2^32 - 1 and 2^32
StoreDocIds ==
    {<<7>>, <<3, 0, 0>>, <<4, 2, 9, 4, 9, 6, 7, 2, 9, 5>>, <<4, 2, 9, 4, 9, 6, 7, 2, 9, 6>>}

StoreContents == {<<"a">>, <<"ya", "A">>, <<"a", " ", "ya", "A">>}

StoreDocuments == SeqsUpTo(StoreDocIds \X StoreContents, MaxStoreDocs)

\* list(y) keeping one member of the set only
dump_mappings_first(idx) ==
    {[i \in 1..Cardinality(DOMAIN idx) |->
         <<keys[i], IF idx[keys[i]] = {} THEN <<>>
                    ELSE <<CHOOSE d \in idx[keys[i]] : TRUE>>>>] :
       keys \in ListsOf(DOMAIN idx)}

\* mapping = {x: list(y) for x, y in self._word2doc_id.items()}: the order
\* of the items and the order of each list are those of the dict and of the
\* sets, which the model leaves open
dump_mappings(idx) ==
    LET lists == {c \in [DOMAIN idx -> UNION {ListsOf(idx[t]) : t \in DOMAIN idx}] :
                     \A t \in DOMAIN idx : c[t] \in ListsOf(idx[t])}
    IN  {[i \in 1..Cardinality(DOMAIN idx) |-> <<keys[i], c[keys[i]]>>] :
           keys \in ListsOf(DOMAIN idx), c \in lists}

\* index = {x: set(y) for x, y in storage_policy.load(filepath).items()}
load_index(mapping) ==
    [t \in {mapping[i][1] : i \in DOMAIN mapping} |->
        Range(mapping[CHOOSE i \in DOMAIN mapping :
                        /\ mapping[i][1] = t
                        /\ \A j \in DOMAIN mapping : mapping[j][1] = t => j <= i][2])]

\* storage_policy.dump(mapping, filepath): the outcomes <<exception, file,
\* returned>>.  The json policy returns nothing; the struct policy returns
\* the number of bytes written, and when a number does not fit it raises and
\* leaves either the file as it was or the bytes written before
policy_dump(policy, mapping, file) ==
    IF policy = "json"
    THEN {<<"none", <<"json", utf8_encode(json_dumps(mapping))>>, None>>}
    ELSE LET packed == struct_dumps(mapping)
         IN  IF packed[1] = "ok"
             THEN {<<"none", <<"struct", packed[2]>>, to_int(Len(packed[2]))>>}
             ELSE {<<"struct.error", file, None>>,
                   <<"struct.error", <<"struct", packed[2]>>, None>>}

\* storage_policy.load(filepath): <<exception, mapping>>
policy_load(policy, file) ==
    IF file = None THEN <<"FileNotFoundError", <<>>>>
    ELSE IF policy # file[1] THEN <<"SerializationError", <<>>>>
    ELSE LET got == IF policy = "json" THEN json_loads(utf8_decode(file[2]))
                    ELSE struct_loads(file[2])
         IN  IF got = None THEN <<"SerializationError", <<>>>> ELSE <<"none", got[1]>>

\* index.dump(filepath, storage_policy)
Dump(policy) ==
    /\ pc = "built"
    /\ \E mapping \in dump_mappings(word2doc_id) :
         \E out \in policy_dump(policy, mapping, disk) :
           /\ error' = out[1]
           /\ disk' = out[2]
           /\ written' = out[3]
           /\ pc' = IF out[1] = "none" THEN "dumped" ELSE "failed"
    /\ storage_policy' = policy
    /\ UNCHANGED <<loadVars, buildVars, queryVars, loaded, cliVars>>

\* InvertedIndex.load(filepath, storage_policy)
Load(policy) ==
    /\ pc = "dumped"
    /\ LET got == policy_load(policy, disk)
       IN  /\ error' = got[1]
           /\ loaded' = IF got[1] = "none" THEN load_index(got[2]) ELSE loaded
           /\ pc' = IF got[1] = "none" THEN "loaded" ELSE "failed"
    /\ storage_policy' = policy
    /\ UNCHANGED <<loadVars, buildVars, queryVars, disk, written, cliVars>>

\* an index built by build_inverted_index
InitStore ==
    /\ pc = "built"
    /\ documents \in StoreDocuments
    /\ word2doc_id = build_inverted_index(documents)
    /\ line = <<>> /\ yielded = None
    /\ query = <<>> /\ result = <<>>
    /\ storage_policy = "none" /\ disk = None /\ written = None /\ loaded = EmptyDict
    /\ queries_given = FALSE /\ queries = <<>> /\ query_file = <<>>
    /\ position = 0 /\ stdout = <<>>
    /\ error = "none"

NextStore ==
    \/ \E policy \in Policies : Dump(policy)
    \/ \E policy \in Policies : Load(policy)

SpecStore == InitStore /\ [][NextStore]_vars

----------------------------------------------------------------------------
(* create_index and process_query *)

\* queries, or lines of the query file, in one call of process_query
MaxQueries == 2

\* the policy names a caller may pass; "yaml" is not a policy
PolicyNames == Policies \cup {"yaml"}

\* lines of the dataset: "1 a", "2 a A", "10 A", "4294967296 a", and "a"
DatasetLines ==
    {<<"1", " ", "a", "\n">>,
     <<"2", " ", "a", " ", "A", "\n">>,
     <<"1", "0", " ", "A", "\n">>,
     <<"4", "2", "9", "4", "9", "6", "7", "2", "9", "6", " ", "a", "\n">>,
     <<"a", "\n">>}

\* the queries of the command line
CliQueries == {<<>>, <<<<"a">>>>, <<<<"A">>>>, <<<<"a">>, <<"A">>>>, <<<<"b">>>>}

\* the lines of the query file: "a", "a A", "b" and the empty line
QueryLines ==
    {<<"a", "\n">>, <<"a", " ", "A", "\n">>, <<"b", "\n">>, <<"\n">>}

\* the index file left by an earlier run: {"b": [1]} written by the json policy
OldIndexFile == <<"json", utf8_encode(json_dumps(<<<<<<"b">>, <<<<1>>>>>>>>))>>

\* StoragePolicy.create(name): the policy, or "none" for an unknown name
\* (the configuration error of the design document)
policy_create(name) == IF name \in Policies THEN name ELSE "none"

\* create_index opening the output file for writing before anything is read
CreateIndex_open_first(name) ==
    /\ pc = "start"
    /\ storage_policy' = policy_create(name)
    /\ disk' = <<name, <<>>>>
    /\ IF policy_create(name) = "none"
       THEN pc' = "create_failed" /\ error' = "ConfigurationError"
       ELSE pc' = "indexing" /\ error' = "none"
    /\ UNCHANGED <<loadVars, buildVars, queryVars, written, loaded, cliVars>>

\* create_index up to the loop: load_documents returns a generator that has
\* not read anything yet, then the policy name is resolved
CreateIndex(name) ==
    /\ pc = "start"
    /\ storage_policy' = policy_create(name)
    /\ IF policy_create(name) = "none"
       THEN pc' = "create_failed" /\ error' = "ConfigurationError"
       ELSE pc' = "indexing" /\ error' = "none"
    /\ UNCHANGED <<loadVars, buildVars, queryVars, disk, written, loaded, cliVars>>

\* one round of the loop of build_inverted_index over the generator: the
\* next line is read and parsed, and its words are added or ValueError
\* leaves create_index
IndexLine(l) ==
    /\ pc = "indexing"
    /\ Len(documents) < MaxDocs
    /\ line' = l
    /\ yielded' = parse_line(l)
    /\ IF parse_line(l) = None
       THEN /\ pc' = "create_failed" /\ error' = "ValueError"
            /\ UNCHANGED buildVars
       ELSE /\ word2doc_id' = add_document(word2doc_id, parse_line(l)[1], parse_line(l)[2])
            /\ documents' = Append(documents, parse_line(l))
            /\ UNCHANGED <<pc, error>>
    /\ UNCHANGED <<queryVars, storeVars, cliVars>>

\* the dataset is exhausted: the index is returned and dumped
IndexDump ==
    /\ pc = "indexing"
    /\ \E mapping \in dump_mappings(word2doc_id) :
         \E out \in policy_dump(storage_policy, mapping, disk) :
           /\ error' = out[1]
           /\ disk' = out[2]
           /\ written' = out[3]
           /\ pc' = IF out[1] = "none" THEN "created" ELSE "create_failed"
    /\ UNCHANGED <<loadVars, buildVars, queryVars, storage_policy, loaded, cliVars>>

\* the line printed for a result without printing anything for an empty one
output_result_nonempty(out) ==
    IF out = <<>> THEN <<>>
    ELSE join(<<",">>, [i \in DOMAIN out |-> str(out[i])]) \o <<"\n">>

\* output_result: print(','.join(str(x) for x in out), end='\n')
output_result(out) == join(<<",">>, [i \in DOMAIN out |-> str(out[i])]) \o <<"\n">>

\* process_query up to the loops, in a process of its own: the policy name
\* is resolved and the index is loaded from the file.  The caller passes
\* a list of queries, or None and the lines of a query file
ProcessQuery(name) ==
    /\ pc \in {"start", "created", "create_failed"}
    /\ storage_policy' = policy_create(name)
    /\ LET got == policy_load(policy_create(name), disk)
       IN  IF policy_create(name) = "none"
           THEN pc' = "query_failed" /\ error' = "ConfigurationError" /\ loaded' = EmptyDict
           ELSE IF got[1] # "none"
           THEN pc' = "query_failed" /\ error' = got[1] /\ loaded' = EmptyDict
           ELSE pc' = "answering" /\ error' = "none" /\ loaded' = load_index(got[2])
    /\ \/ /\ queries_given' = TRUE
          /\ queries' \in SeqsUpTo(CliQueries, MaxQueries)
          /\ query_file' = <<>>
       \/ /\ queries_given' = FALSE
          /\ queries' = <<>>
          /\ query_file' \in SeqsUpTo(QueryLines, MaxQueries)
    /\ position' = 0
    /\ stdout' = <<>>
    /\ line' = <<>> /\ yielded' = None
    /\ documents' = <<>> /\ word2doc_id' = EmptyDict
    /\ query' = <<>> /\ result' = <<>>
    /\ written' = None
    /\ UNCHANGED disk

\* for subquery in queries: idxs = index.query(subquery); output_result(idxs)
AnswerQuery ==
    /\ pc = "answering"
    /\ queries_given
    /\ position < Len(queries)
    /\ query' = queries[position + 1]
    /\ \E idxs \in ListsOf(query_set(loaded, queries[position + 1])) :
         /\ result' = idxs
         /\ stdout' = stdout \o output_result(idxs)
    /\ position' = position + 1
    /\ UNCHANGED <<pc, loadVars, buildVars, storeVars, queries_given, queries, query_file, error>>

\* for line in query_file: words = line.rstrip().split(' '); ...
AnswerLine ==
    /\ pc = "answering"
    /\ ~queries_given
    /\ position < Len(query_file)
    /\ LET words == split_single_space(rstrip(query_file[position + 1]))
       IN  /\ query' = words
           /\ \E idxs \in ListsOf(query_set(loaded, words)) :
                /\ result' = idxs
                /\ stdout' = stdout \o output_result(idxs)
    /\ position' = position + 1
    /\ UNCHANGED <<pc, loadVars, buildVars, storeVars, queries_given, queries, query_file, error>>

\* the loop is over: process_query returns
ProcessQueryReturn ==
    /\ pc = "answering"
    /\ position = IF queries_given THEN Len(queries) ELSE Len(query_file)
    /\ pc' = "answered"
    /\ UNCHANGED <<loadVars, buildVars, queryVars, storeVars, cliVars, error>>

Init ==
    /\ pc = "start"
    /\ disk \in {None, OldIndexFile}
    /\ word2doc_id = EmptyDict
    /\ line = <<>> /\ yielded = None /\ documents = <<>>
    /\ query = <<>> /\ result = <<>>
    /\ storage_policy = "none" /\ written = None /\ loaded = EmptyDict
    /\ queries_given = FALSE /\ queries = <<>> /\ query_file = <<>>
    /\ position = 0 /\ stdout = <<>>
    /\ error = "none"

Next ==
    \/ \E name \in PolicyNames : CreateIndex(name)
    \/ \E l \in DatasetLines : IndexLine(l)
    \/ IndexDump
    \/ \E name \in PolicyNames : ProcessQuery(name)
    \/ AnswerQuery
    \/ AnswerLine
    \/ ProcessQueryReturn

Spec == Init /\ [][Next]_vars

----------------------------------------------------------------------------
(* Claims about InvertedIndex.query, checked under SpecQuery *)

Present(w) == w \in DOMAIN word2doc_id

\* C1: intersection law.  A query of one present term returns exactly that
\* term's postings, a query of two present terms returns exactly the
\* intersection of their postings, and a query none of whose terms is
\* present (the empty query included) returns the empty list.
C1_IntersectionLaw ==
    pc = "queried" =>
        /\ (Len(query) = 1 /\ Present(query[1]))
              => Range(result) = word2doc_id[query[1]]
        /\ (Len(query) = 2 /\ Present(query[1]) /\ Present(query[2]))
              => Range(result) = word2doc_id[query[1]] \cap word2doc_id[query[2]]
        /\ (\A i \in DOMAIN query : ~Present(query[i])) => result = <<>>

\* two different present terms were queried and share some but not all documents
C1_Witness ==
    /\ pc = "queried"
    /\ Len(query) = 2 /\ query[1] # query[2]
    /\ Present(query[1]) /\ Present(query[2])
    /\ word2doc_id[query[1]] # word2doc_id[query[2]]
    /\ result # <<>>
    /\ Range(result) = word2doc_id[query[1]] \cap word2doc_id[query[2]]

\* C2: unknown terms are ignored.  When at least one term of the query is
\* present, the result has the members of the result of the query with its
\* absent terms removed.
C2_UnknownTermIgnored ==
    (pc = "queried" /\ \E i \in DOMAIN query : Present(query[i])) =>
        Range(result) = query_set(word2doc_id, SelectSeq(query, Present))

\* a present and an absent term were queried and the result is not empty
C2_Witness ==
    /\ pc = "queried"
    /\ \E i \in DOMAIN query : Present(query[i])
    /\ \E i \in DOMAIN query : ~Present(query[i])
    /\ result # <<>>

\* C10: the result depends only on the set of terms of the query: every
\* query with the same set of terms, in any order and with any
\* multiplicities, gives a result with the same members.
C10_DuplicatesAndOrder ==
    pc = "queried" =>
        \A q2 \in Queries :
            Range(q2) = Range(query) => query_set(word2doc_id, q2) = Range(result)

\* a query with a repeated term and two different present terms was answered
C10_Witness ==
    /\ pc = "queried"
    /\ Len(query) = 3 /\ query[1] = query[3] /\ query[1] # query[2]
    /\ Present(query[1]) /\ Present(query[2])
    /\ word2doc_id[query[1]] # word2doc_id[query[2]]
    /\ result # <<>>

\* C11: query is read-only.  Every step, a call of InvertedIndex.query
\* (with present terms, absent terms or no term) or the caller changing the
\* list it was handed, leaves the store with the same set of terms and the
\* same postings set for every term: no absent term is added, and the
\* result shares no mutable state with the store.
C11_QueryReadOnly ==
    [][/\ DOMAIN word2doc_id' = DOMAIN word2doc_id
       /\ \A t \in DOMAIN word2doc_id : word2doc_id'[t] = word2doc_id[t]]_vars

\* a query with a present and an absent term was answered with a non-empty
\* list, and the caller then appended to that list a document id the
\* postings of the present term do not hold
C11_Witness ==
    /\ pc = "mutated"
    /\ \E i \in DOMAIN query : ~Present(query[i])
    /\ Len(result) >= 2
    /\ \E i \in DOMAIN query :
         /\ Present(query[i])
         /\ result[Len(result)] \notin word2doc_id[query[i]]

----------------------------------------------------------------------------
(* Claims about build_inverted_index, checked under SpecBuild *)

\* t is a whitespace-separated token of text: a maximal run of characters
\* that are not whitespace
IsToken(t, text) ==
    /\ t # <<>>
    /\ \A k \in DOMAIN t : t[k] \notin Whitespace
    /\ \E i \in DOMAIN text :
          LET j == i + Len(t) - 1
          IN  /\ j <= Len(text)
              /\ SubSeq(text, i, j) = t
              /\ (i = 1 \/ text[i - 1] \in Whitespace)
              /\ (j = Len(text) \/ text[j + 1] \in Whitespace)

TokensOf(text) ==
    {t \in {SubSeq(text, i, j) : i, j \in DOMAIN text} : IsToken(t, text)}

\* the ids of the consumed documents that hold token t
DocsWith(t) ==
    {documents[i][1] : i \in {n \in DOMAIN documents : IsToken(t, documents[n][2])}}

AllTokens == UNION {TokensOf(documents[i][2]) : i \in DOMAIN documents}

\* C4: postings exactness.  In the built store a doc_id is in postings[t]
\* if and only if some input pair (doc_id, text) has t as a token of text;
\* every key of the store is a token of some input document, so the empty
\* input gives a store with no terms.
C4_PostingsExact ==
    pc = "built" =>
        /\ \A t \in DOMAIN word2doc_id : \E i \in DOMAIN documents :
                IsToken(t, documents[i][2])
        /\ \A t \in DOMAIN word2doc_id \cup AllTokens : \A d \in BuildDocIds :
                (t \in DOMAIN word2doc_id /\ d \in word2doc_id[t]) <=> d \in DocsWith(t)
        /\ documents = <<>> => DOMAIN word2doc_id = {}

\* two documents with different ids were indexed, one term is in both and
\* another in only one of them
C4_Witness ==
    /\ pc = "built"
    /\ Len(documents) = 2
    /\ documents[1][1] # documents[2][1]
    /\ \E t, u \in DOMAIN word2doc_id :
          /\ Cardinality(word2doc_id[t]) = 2
          /\ Cardinality(word2doc_id[u]) = 1

\* C5: duplicate collapse.  A single input document with k distinct tokens
\* gives a store of exactly k terms, each with the postings {doc_id}; in
\* general the postings of a term hold one member per document id holding
\* the term, however often the term is repeated inside a document.
C5_DuplicateCollapse ==
    pc = "built" =>
        /\ Len(documents) = 1 =>
              /\ Cardinality(DOMAIN word2doc_id) = Cardinality(TokensOf(documents[1][2]))
              /\ \A t \in DOMAIN word2doc_id : word2doc_id[t] = {documents[1][1]}
        /\ \A t \in DOMAIN word2doc_id :
              Cardinality(word2doc_id[t]) = Cardinality(DocsWith(t))

\* a single document that holds its one token twice
C5_Witness ==
    /\ pc = "built"
    /\ Len(documents) = 1
    /\ Cardinality(DOMAIN word2doc_id) = 1
    /\ Len(split(documents[1][2])) = 2
    /\ \A t \in DOMAIN word2doc_id : word2doc_id[t] = {documents[1][1]}

\* C6: no normalization.  Every token is a key exactly as written, the store
\* has one key per distinct token, and two tokens that differ only in letter
\* case keep independent postings.
C6_NoNormalization ==
    pc = "built" =>
        /\ DOMAIN word2doc_id = AllTokens
        /\ \A t, u \in AllTokens :
              (t # u /\ [i \in DOMAIN t |-> LowerChar(t[i])] = [i \in DOMAIN u |-> LowerChar(u[i])])
                => /\ word2doc_id[t] = DocsWith(t)
                   /\ word2doc_id[u] = DocsWith(u)

\* "a" and "A" are both keys and have different postings
C6_Witness ==
    /\ pc = "built"
    /\ <<"a">> \in DOMAIN word2doc_id
    /\ <<"A">> \in DOMAIN word2doc_id
    /\ word2doc_id[<<"a">>] # word2doc_id[<<"A">>]

----------------------------------------------------------------------------
(* Claims about load_documents, checked under SpecLoad *)

\* the line splits into a leading integer id, a separator and trailing text
WellFormed(l) ==
    LET t == rstrip(l)
    IN  \E k \in 1..Len(t) :
          /\ \A i \in 1..k : t[i] \in Digits
          /\ k + 1 < Len(t) + 1
          /\ t[k + 1] \in Whitespace
          /\ k + 2 <= Len(t)

\* C7: parse errors of the document source.  A line that does not split
\* into a leading integer id, a separator and trailing text raises and
\* yields nothing; a pair is yielded only for a line that begins with the
\* integer id.
C7_ParseErrors ==
    pc \in {"yielded", "raised"} =>
        /\ ~WellFormed(line) => (pc = "raised" /\ yielded = None)
        /\ pc = "yielded" => WellFormed(line)

----------------------------------------------------------------------------
(* Claims about dump and load, checked under SpecStore *)

\* the struct policy raised while dumping
DumpFailed == pc = "failed" /\ error = "struct.error"

\* the index was dumped, and a load with the policy that dumped it has run
LoadedBack ==
    /\ pc \in {"loaded", "failed"}
    /\ error # "struct.error"
    /\ storage_policy = disk[1]

\* the Python int d is greater than 2^32 - 1 = 4294967295
Exceeds32(d) ==
    LET max == <<4, 2, 9, 4, 9, 6, 7, 2, 9, 5>>
    IN  \/ Len(d) > Len(max)
        \/ /\ Len(d) = Len(max)
           /\ \E i \in DOMAIN d : d[i] > max[i] /\ \A j \in 1..(i - 1) : d[j] = max[j]

HasWideId == \E t \in DOMAIN word2doc_id : \E d \in word2doc_id[t] : Exceeds32(d)

\* C3 as stated: for every store built by build_inverted_index and for each
\* codec, the dump succeeds and the load that follows it gives an index
\* equal to the store.
C3_RoundTrip ==
    /\ ~DumpFailed
    /\ LoadedBack => (pc = "loaded" /\ loaded = word2doc_id)

\* C3 as amended: the load that follows a dump with the same codec gives an
\* index equal to the store; the json dump always succeeds, and the struct
\* dump succeeds exactly when every document id of the store is at most
\* 2^32 - 1, raising otherwise.
C3_RoundTripUint32 ==
    /\ LoadedBack => (pc = "loaded" /\ loaded = word2doc_id)
    /\ (pc \in {"dumped", "failed"} /\ error \in {"none", "struct.error"})
         => (DumpFailed <=> (storage_policy = "struct" /\ HasWideId))

\* a store of two terms, one of them in two documents with the ids 300 and
\* 2^32 - 1, came back from the struct codec
C3_Witness ==
    /\ pc = "loaded"
    /\ storage_policy = "struct" /\ disk[1] = "struct"
    /\ Cardinality(DOMAIN word2doc_id) = 2
    /\ \E t \in DOMAIN word2doc_id :
         word2doc_id[t] = {<<3, 0, 0>>, <<4, 2, 9, 4, 9, 6, 7, 2, 9, 5>>}
    /\ loaded = word2doc_id

\* the number of bytes of the UTF-8 encoding of a term
RECURSIVE Utf8Length(_)
Utf8Length(term) ==
    IF term = <<>> THEN 0
    ELSE (IF Head(term) = "ya" THEN 2 ELSE 1) + Utf8Length(Tail(term))

RECURSIVE EntriesSize(_, _)
EntriesSize(idx, terms) ==
    IF terms = {} THEN 0
    ELSE LET t == CHOOSE x \in terms : TRUE
         IN  4 + Utf8Length(t) + 4 + 4 * Cardinality(idx[t])
               + EntriesSize(idx, terms \ {t})

\* C8: binary codec framing.  StructStoragePolicy.dump returns the number
\* of bytes it wrote, which is 4 plus, for every term, 4 + the UTF-8 length
\* of the term + 4 + 4 times the number of its doc ids; for the empty store
\* it writes and returns 4 bytes.
C8_StructFraming ==
    (pc = "dumped" /\ storage_policy = "struct") =>
        /\ written = to_int(Len(disk[2]))
        /\ written = to_int(4 + EntriesSize(word2doc_id, DOMAIN word2doc_id))
        /\ DOMAIN word2doc_id = {} => (written = <<4>> /\ Len(disk[2]) = 4)

\* a store with a term of a two-byte character and a term with two ids was
\* dumped by the struct policy
C8_Witness ==
    /\ pc = "dumped" /\ storage_policy = "struct"
    /\ <<"ya", "A">> \in DOMAIN word2doc_id
    /\ \E t \in DOMAIN word2doc_id : Cardinality(word2doc_id[t]) = 2
    /\ written = to_int(Len(disk[2]))

----------------------------------------------------------------------------
(* Claims about process_query, checked under Spec *)

\* stdout cut at its newlines: the lines, then what follows the last newline
StdoutPieces == split_on("\n", stdout, 1, <<>>, <<>>)

OutputLines == SubSeq(StdoutPieces, 1, Len(StdoutPieces) - 1)

\* the document ids written on an output line
IdsOnLine(l) ==
    IF l = <<>> THEN <<>>
    ELSE LET parts == split_on(",", l, 1, <<>>, <<>>)
         IN  [k \in DOMAIN parts |-> int(parts[k])]

\* the i-th query of the call
QueryAt(i) ==
    IF queries_given THEN queries[i]
    ELSE split_single_space(rstrip(query_file[i]))

QueryCount == IF queries_given THEN Len(queries) ELSE Len(query_file)

\* C9: query result surface.  After i queries exactly i lines are written,
\* all n of them when process_query returns; the i-th line is the
\* comma-joined list of the document ids of the i-th query's result, each
\* once, and it is an empty line when the result is empty.
C9_OneLinePerQuery ==
    pc \in {"answering", "answered"} =>
        /\ StdoutPieces[Len(StdoutPieces)] = <<>>
        /\ Len(OutputLines) = position
        /\ pc = "answered" => position = QueryCount
        /\ \A i \in 1..position :
             /\ Range(IdsOnLine(OutputLines[i])) = query_set(loaded, QueryAt(i))
             /\ Len(IdsOnLine(OutputLines[i])) = Cardinality(query_set(loaded, QueryAt(i)))
             /\ query_set(loaded, QueryAt(i)) = {} => OutputLines[i] = <<>>

\* two queries were answered, the first with no document and the second
\* with two
C9_Witness ==
    /\ pc = "answered"
    /\ queries_given
    /\ Len(queries) = 2
    /\ query_set(loaded, queries[1]) = {}
    /\ Cardinality(query_set(loaded, queries[2])) = 2
    /\ Len(OutputLines) = 2
    /\ OutputLines[1] = <<>>

\* C12: failure before publish in create_index.  The index file is written
\* only by the last step of create_index, after the storage-policy name was
\* resolved and every line read was parsed and indexed; indexing goes on
\* only past a resolved name and a parsed line; and a step that ends
\* create_index with the configuration error of an unknown policy name or
\* with the ValueError of a line that does not parse leaves the file at the
\* output path, present or not, as it was and returns nothing.
C12_FailureBeforePublish ==
    [][/\ disk' # disk =>
            /\ pc = "indexing" /\ pc' \in {"created", "create_failed"}
            /\ storage_policy \in Policies
            /\ word2doc_id = build_inverted_index(documents)
       /\ (pc = "start" /\ pc' = "indexing") => storage_policy' \in Policies
       /\ (pc = "indexing" /\ pc' = "indexing") =>
            /\ yielded' # None
            /\ documents' = Append(documents, yielded')
       /\ (pc' = "create_failed" /\ error' \in {"ConfigurationError", "ValueError"}) =>
            /\ disk' = disk
            /\ written' = None]_vars

\* create_index indexed a line, then met a line that does not parse, with
\* an index file of an earlier run at the output path
C12_Witness ==
    /\ pc = "create_failed"
    /\ error = "ValueError"
    /\ Len(documents) >= 1
    /\ word2doc_id # EmptyDict
    /\ disk = OldIndexFile

====
